---- MODULE Spec2Model ----
(***************************************************************************)
(* The interview session lifecycle of the AI Excel Interviewer backend:    *)
(* the in-memory session store, the four route handlers of                 *)
(* app/api/routes/interview.py and the LLM client of                       *)
(* app/services/llm_service.py.                                            *)
(*                                                                         *)
(* The handlers are coroutines on one asyncio event loop.  A handler runs  *)
(* without interruption up to its `await llm_service.generate_response`,   *)
(* is suspended there while the HTTP exchange with Ollama is in flight,    *)
(* and runs without interruption from the resumption to its return.  Each  *)
(* of these uninterrupted segments is one action.  With use_local = FALSE  *)
(* the awaited coroutine (_call_openai) never yields to the loop, so the   *)
(* whole handler is one action.                                            *)
(*                                                                         *)
(* Strings are TLA+ strings; str.lower() and the `in` substring test are   *)
(* computed character by character.  datetime.now() reads `clock`, which   *)
(* the Tick action advances between segments.                              *)
(***************************************************************************)
EXTENDS Bags, FiniteSets, Integers, Sequences, TLC

VARIABLES
    use_local,        \* LLMService.use_local (settings.use_local_llm)
    active_sessions,  \* dict session_id -> session_data
    chat_history,     \* dict session_id -> list of transcript entries
    pending,          \* bag of coroutines suspended at their LLM call
    clock,            \* the value datetime.now() returns
    last,             \* the most recent handler step and what it produced
    chat_returned,    \* history: per session id, chat turns that returned 200
    accepted,         \* history: requests that passed their session check
    start_returned,   \* history: bag of the session ids start has returned
    report_returned,  \* history: per session id, reports that returned 200
    calls,            \* history: calls of generate_response so far
    posts             \* history: requests posted to the LLM endpoint so far

vars == <<use_local, active_sessions, chat_history, pending, clock, last,
          chat_returned, accepted, start_returned, report_returned, calls,
          posts>>

----------------------------------------------------------------------------
(* Bounds of the exploration *)

MaxSessions == 2    \* sessions started
MaxRequests == 4    \* start, chat and report requests accepted
MaxPending == 2     \* coroutines suspended at once
MaxTime == 1        \* ticks of the clock, in SpecClock
DeepRequests == 7   \* requests accepted in SpecDeep
TalkRequests == 2   \* requests accepted in SpecTalk
LiveRequests == 3   \* requests accepted in SpecLive

----------------------------------------------------------------------------
(* Strings *)

Min(a, b) == IF a <= b THEN a ELSE b

UpperCase == "ABCDEFGHIJKLMNOPQRSTUVWXYZ"
LowerCase == "abcdefghijklmnopqrstuvwxyz"

\* str.lower() on the ASCII capitals
LowerMap ==
    [c \in {SubSeq(UpperCase, i, i) : i \in 1..Len(UpperCase)} |->
        LET i == CHOOSE j \in 1..Len(UpperCase) : SubSeq(UpperCase, j, j) = c
        IN  SubSeq(LowerCase, i, i)]

\* str.lower() on one character
LowerChar(c) == IF c \in DOMAIN LowerMap THEN LowerMap[c] ELSE c

RECURSIVE lower(_)
\* str.lower(): every character lower-cased, the rest kept
lower(s) ==
    IF Len(s) = 0 THEN s
    ELSE IF Len(s) = 1 THEN LowerChar(s)
    ELSE LET h == Len(s) \div 2
         IN  lower(SubSeq(s, 1, h)) \o lower(SubSeq(s, h + 1, Len(s)))

\* Python's `k in s` on strings
Contains(s, k) ==
    \E i \in 1..(Len(s) - Len(k) + 1) : SubSeq(s, i, i + Len(k) - 1) = k

----------------------------------------------------------------------------
(* app/services/llm_service.py *)

\* What one HTTP exchange with the Ollama endpoint can end in.  "ok" is a 200
\* whose JSON body carries message.content; "ok_no_content" a 200 whose JSON
\* body lacks "message" or "content"; "ok_bad_body" a 200 whose body is not
\* JSON or whose "message" is no object (response.json() or .get raises).
Contents == {"Good. How would you build a chart from this table?"}

Outcomes ==
    [kind : {"ok"}, content : Contents]
    \cup [kind : {"ok_no_content", "ok_bad_body", "http_error", "timeout",
                  "connect_error", "other_error"},
          content : {""}]

WelcomeText ==
    "Welcome to the AI Excel Interviewer! \n\nI'm here to assess your Excel skills through a series of questions and practical tasks. This interview will take about 20-30 minutes and will cover:\n\n- Formulas and Functions (VLOOKUP, HLOOKUP, INDEX/MATCH)\n- Data Analysis and Pivot Tables  \n- Charts and Visualization\n- Data Validation and Formatting\n- Advanced Excel Features\n\nAre you ready to begin? Let's start with a fundamental question about Excel formulas."

PivotTableQuestion ==
    "Excellent! VLOOKUP is indeed a fundamental Excel function. \n\nLet's move to the next area: **Pivot Tables**\n\nHere's your next question: You have a large dataset with sales data containing columns for Date, Salesperson, Product, Region, and Sales Amount. You need to create a summary showing total sales by region and by month.\n\nHow would you approach this using Excel? Please describe the steps you would take to create an effective pivot table for this analysis."

CommissionQuestion ==
    "Great approach to pivot tables! \n\nNow let's test your formula skills: **Advanced Formulas**\n\nQuestion: You need to create a commission calculation with these rules:\n- Sales under $5,000: 2% commission\n- Sales $5,000 to $15,000: 5% commission  \n- Sales over $15,000: 8% commission\n\nWhat Excel formula would you write to calculate commission for a sales amount in cell B2? Please provide the complete formula."

DataValidationQuestion ==
    "Thank you for your response. That shows good Excel knowledge!\n\nLet me ask you about another important Excel feature. How comfortable are you with data validation and ensuring data quality in Excel spreadsheets? \n\nCan you describe a situation where you would use data validation, and what specific validation rules you might implement?"

NoContentText == "I'm sorry, I couldn't generate a response."

TimeoutText ==
    "I'm taking longer than expected to respond. Let me try a different approach."

OpenAIText == "OpenAI integration not configured. Using local LLM mode."

\* _fallback_response with the "pivot" test ahead of the "vlookup" test
_fallback_response_pivot_first(prompt) ==
    LET prompt_lower == lower(prompt)
    IN  IF Contains(prompt_lower, "welcome") \/ Contains(prompt_lower, "greet")
        THEN WelcomeText
        ELSE IF Contains(prompt_lower, "pivot")
        THEN CommissionQuestion
        ELSE IF Contains(prompt_lower, "vlookup")
        THEN PivotTableQuestion
        ELSE DataValidationQuestion

\* LLMService._fallback_response
_fallback_response(prompt) ==
    LET prompt_lower == lower(prompt)
    IN  IF Contains(prompt_lower, "welcome") \/ Contains(prompt_lower, "greet")
        THEN WelcomeText
        ELSE IF Contains(prompt_lower, "vlookup")
        THEN PivotTableQuestion
        ELSE IF Contains(prompt_lower, "pivot")
        THEN CommissionQuestion
        ELSE DataValidationQuestion

----------------------------------------------------------------------------
(* Prompt templates of app/api/routes/interview.py *)

\* start_interview: welcome_prompt
welcome_prompt(candidate_name) ==
    "\n        You are an AI interviewer conducting an Excel skills assessment.\n        Greet the candidate "
    \o candidate_name \o
    " professionally and explain:\n        1. This is a technical interview focused on Excel skills\n        2. The interview will take about 20-30 minutes  \n        3. They'll answer questions and complete practical Excel tasks\n        4. Ask if they're ready to begin\n        Keep it warm but professional, under 100 words.\n        "

\* the chat prompt without the sentence that lists the Excel topics
response_prompt_no_topics(message) ==
    "\n        You are interviewing a candidate for Excel skills.\n        Previous context: The candidate just said: \"" \o message \o "\"\n        "

\* handle_chat_message: response_prompt
response_prompt(message) ==
    "\n        You are interviewing a candidate for Excel skills.\n        Previous context: The candidate just said: \""
    \o message \o
    "\"\n        \n        Based on their response, provide:\n        1. Brief acknowledgment of their answer\n        2. The next appropriate Excel question\n        3. Clear instructions for what they should explain or demonstrate\n        \n        Keep responses professional and encouraging. Progress through different Excel topics like formulas, pivot tables, charts, data validation, etc.\n        "

\* generate_report: report_prompt
report_prompt(candidate_email, current_question) ==
    "\n    Generate a comprehensive Excel skills assessment report:\n    \n    Candidate: "
    \o candidate_email \o
    "\n    Session Duration: "
    \o ToString(current_question) \o
    " questions answered\n    \n    Based on the interview conversation, provide:\n    1. Executive Summary (2-3 sentences)\n    2. Technical Skills Assessment (strengths observed)  \n    3. Areas for Improvement\n    4. Overall Recommendation (Strong/Moderate/Needs Development)\n    5. Specific Excel topics to focus on for improvement\n    \n    Be professional and constructive in your assessment.\n    "

----------------------------------------------------------------------------
(* Inputs of the requests *)

Emails == {"a@b.com", "greet@b.com"}
Names == {"Test Candidate", "Ann"}
Messages ==
    {"I use VLOOKUP daily", "ok", "Welcome", "please greet me",
     "welcome the VLOOKUP"}

\* a session id the server never issues
NoSuchSession == "no-such-session"

\* The prompts the handlers can build from these inputs
HandlerPrompts ==
    {welcome_prompt(n) : n \in Names}
    \cup {response_prompt(m) : m \in Messages}
    \cup {report_prompt(e, q) : e \in Emails, q \in 0..DeepRequests}

\* Prompts for calling the LLM client directly
DirectPrompts ==
    {"", "Welcome", "GREETINGS", "please greet me", "vlookup", "VLookup rocks",
     "pivot", "Pivot tables", "greet with vlookup", "welcome to pivot",
     "vlookup in a pivot table", "PIVOT then VLOOKUP", "welcom", "gree t",
     "v lookup", "data validation", "charts", "wel come, vlook up, piv ot",
     report_prompt("vlookup@b.com", 1), report_prompt("pivot@b.com", 2),
     response_prompt("welcome the VLOOKUP"), response_prompt("pivot"),
     welcome_prompt("Vlookup Pivot"), welcome_prompt("")}

Prompts == HandlerPrompts \cup DirectPrompts

\* _fallback_response evaluated once per prompt
FallbackTable == [p \in Prompts |-> _fallback_response(p)]

Fallback(prompt) ==
    IF prompt \in Prompts THEN FallbackTable[prompt]
    ELSE _fallback_response(prompt)

\* What a call hands to its caller: a returned value or a raised exception
Return(value) == [raised |-> FALSE, value |-> value, exc |-> ""]
Raise(exc) == [raised |-> TRUE, value |-> "", exc |-> exc]

\* LLMService._call_ollama: the try block, with the HTTP exchange ending in
\* `outcome`
ollama_try(prompt, outcome) ==
    CASE outcome.kind = "timeout" -> Raise("TimeoutException")
      [] outcome.kind = "connect_error" -> Raise("ConnectError")
      [] outcome.kind = "other_error" -> Raise("Exception")
      [] outcome.kind = "ok_bad_body" -> Raise("Exception")
      [] outcome.kind = "ok_no_content" -> Return(NoContentText)
      [] outcome.kind = "ok" -> Return(outcome.content)
      [] outcome.kind = "http_error" -> Return(Fallback(prompt))

\* the except clauses with the timeout text given for a connection failure
ollama_except_swapped(prompt, exc) ==
    CASE exc = "TimeoutException" -> Return(TimeoutText)
      [] exc = "ConnectError" -> Return(TimeoutText)
      [] OTHER -> Return(Fallback(prompt))

\* LLMService._call_ollama: the except clauses
ollama_except(prompt, exc) ==
    CASE exc = "TimeoutException" -> Return(TimeoutText)
      [] exc = "ConnectError" -> Return(Fallback(prompt))
      [] OTHER -> Return(Fallback(prompt))

\* _call_ollama without its except clauses
_call_ollama_unguarded(prompt, outcome) == ollama_try(prompt, outcome)

\* LLMService._call_ollama
_call_ollama(prompt, outcome) ==
    LET try == ollama_try(prompt, outcome)
    IN  IF try.raised THEN ollama_except(prompt, try.exc) ELSE try

\* LLMService._call_openai
_call_openai(prompt) == Return(OpenAIText)

\* LLMService.generate_response
generate_response(local, prompt, outcome) ==
    IF local THEN _call_ollama(prompt, outcome) ELSE _call_openai(prompt)

\* _call_ollama with one more request after a failed exchange
ollama_posts_retry(outcome) ==
    IF outcome.kind \in {"timeout", "connect_error", "http_error"} THEN 2
    ELSE 1

\* _call_ollama: the requests it posts to the endpoint, whatever the outcome
\* of the exchange: the one client.post, in no loop
ollama_posts(outcome) == 1

\* generate_response: the requests posted to the LLM endpoint; _call_openai
\* posts none
generate_posts(local, outcome) ==
    IF local THEN ollama_posts(outcome) ELSE 0

\* the outcome recorded for a call that made no HTTP exchange
NoExchange == [kind |-> "none", content |-> ""]

----------------------------------------------------------------------------
(* app/api/routes/interview.py *)

Put(dict, key, value) ==
    [k \in (DOMAIN dict) \cup {key} |-> IF k = key THEN value ELSE dict[k]]

\* session_data with the counter starting at the first question
session_data_first_question(session_id, request, now) ==
    [session_id |-> session_id,
     candidate_email |-> request.candidate_email,
     candidate_name |-> request.candidate_name,
     status |-> "active",
     started_at |-> now,
     current_question |-> 1,
     completed_at |-> <<>>]

\* start_interview: session_data
session_data(session_id, request, now) ==
    [session_id |-> session_id,
     candidate_email |-> request.candidate_email,
     candidate_name |-> request.candidate_name,
     status |-> "active",
     started_at |-> now,
     current_question |-> 0,
     completed_at |-> <<>>]

\* the session stored under the candidate's email
new_session_id_email(request, uuid) == request.candidate_email

\* start_interview: the key the session is stored under
new_session_id(request, uuid) == uuid

\* the response with a canned welcome in place of the text of the LLM client
start_response_canned(session_id, request, welcome_message) ==
    [session_id |-> session_id,
     status |-> "started",
     welcome_message |-> WelcomeText,
     candidate_email |-> request.candidate_email]

\* start_interview: the response
start_response(session_id, request, welcome_message) ==
    [session_id |-> session_id,
     status |-> "started",
     welcome_message |-> welcome_message,
     candidate_email |-> request.candidate_email]

\* handle_chat_message: the transcript entries
user_entry(message, now) ==
    [role |-> "user", message |-> message, timestamp |-> now]

assistant_entry(ai_response, now) ==
    [role |-> "assistant", message |-> ai_response, timestamp |-> now]

\* the counter advanced by two per chat turn
advance_question_by_two(session) ==
    [session EXCEPT !.current_question = @ + 2]

\* the increment together with a reset of the status
advance_question_reactivating(session) ==
    [session EXCEPT !.current_question = @ + 1, !.status = "active"]

\* handle_chat_message: session["current_question"] += 1
advance_question(session) ==
    [session EXCEPT !.current_question = @ + 1]

\* the response built from the counter as it was before the increment
chat_response_stale(session_id, session, ai_response) ==
    [response |-> ai_response,
     session_id |-> session_id,
     question_number |-> session.current_question - 1]

\* handle_chat_message: the response
chat_response(session_id, session, ai_response) ==
    [response |-> ai_response,
     session_id |-> session_id,
     question_number |-> session.current_question]

\* the except clauses without `except HTTPException: raise`
chat_except_generic(exc) == [type |-> "HTTPException", status_code |-> 500]

\* handle_chat_message: the except clauses, applied to an exception raised in
\* the try block
chat_except(exc) ==
    IF exc.type = "HTTPException" THEN exc
    ELSE [type |-> "HTTPException", status_code |-> 500]

SessionNotFound == [type |-> "HTTPException", status_code |-> 404]

\* completion_percentage without min()
completion_percentage_uncapped(current_question) ==
    (current_question * 100) \div 5

\* get_interview_status: completion_percentage.  The float (n / 5) * 100 is
\* the integer 20 * n for every n < 5 and min() yields 100 from 5 on.
completion_percentage(current_question) ==
    Min(100, (current_question * 100) \div 5)

\* get_interview_status: the response
status_response(session_id, session, messages) ==
    [session_id |-> session_id,
     status |-> session.status,
     progress |-> [current_question |-> session.current_question,
                   total_questions |-> 5,
                   completion_percentage |->
                       completion_percentage(session.current_question)],
     started_at |-> session.started_at,
     candidate_email |-> session.candidate_email,
     message_count |-> Len(messages)]

\* mark_completed without the completion timestamp
mark_completed_no_timestamp(session, now) ==
    [session EXCEPT !.status = "completed"]

\* mark_completed with the status misspelt
mark_completed_misspelt(session, now) ==
    [session EXCEPT !.status = "complete", !.completed_at = <<now>>]

\* mark_completed with the counter cleared as the session is closed
mark_completed_resetting(session, now) ==
    [session EXCEPT !.status = "completed", !.completed_at = <<now>>,
                    !.current_question = 0]

\* generate_report: mark session as completed
mark_completed(session, now) ==
    [session EXCEPT !.status = "completed", !.completed_at = <<now>>]

\* generate_report: the response
report_response(session_id, session, report_content, now) ==
    [session_id |-> session_id,
     candidate_email |-> session.candidate_email,
     status |-> "completed",
     report |-> report_content,
     questions_answered |-> session.current_question,
     generated_at |-> now]

----------------------------------------------------------------------------
(* The handlers as steps of the event loop *)

\* A workload bounds what the clients and the environment do in one
\* specification: how many sessions are started, requests accepted,
\* coroutines suspended at once and clock ticks happen, and which request
\* inputs and HTTP outcomes occur.
Workload(sessions, requests, time, emails, names, messages, outcomes) ==
    [sessions |-> sessions, requests |-> requests, pending |-> MaxPending,
     time |-> time, emails |-> emails, names |-> names,
     messages |-> messages, outcomes |-> outcomes]

OutcomesOf(kinds) == {o \in Outcomes : o.kind \in kinds}

\* str(uuid.uuid4()): a value no earlier call returned.  The values are
\* opaque to the program, so the n-th call is given the n-th value.
uuid4(W) ==
    IF Cardinality(DOMAIN active_sessions) < W.sessions
    THEN {"uuid-" \o ToString(Cardinality(DOMAIN active_sessions) + 1)}
    ELSE {}

\* session ids a client sends: the ids in the store and one that is not
RequestIds == (DOMAIN active_sessions) \cup {NoSuchSession}

\* a coroutine suspended at `await llm_service.generate_response(prompt)`:
\* the locals it still uses and the prompt of its HTTP exchange
Coroutine(op, session_id, candidate_email, prompt) ==
    [op |-> op, session_id |-> session_id,
     candidate_email |-> candidate_email, prompt |-> prompt]

\* what a handler step produced: phase "await" (suspended, code 0), "return"
\* (code 200 and the response body) or "raise" (the HTTP error code); llm is
\* the outcome of the HTTP exchange the step consumed
Event(op, phase, session_id, code, body, llm) ==
    [op |-> op, phase |-> phase, session_id |-> session_id, code |-> code,
     body |-> body, llm |-> llm]

NoBody == <<>>

Ended(op, session_id, a, llm) ==
    Event(op, IF a.code = 200 THEN "return" ELSE "raise", session_id, a.code,
          a.body, llm)

Suspend(co) == pending' = pending (+) SetToBag({co})

\* a coroutine that is resumed only once no other request is in flight
Resume_when_alone(co) ==
    /\ BagCardinality(pending) = 1
    /\ pending' = pending (-) SetToBag({co})

Resume(co) == pending' = pending (-) SetToBag({co})

Suspended(op) == {co \in BagToSet(pending) : co.op = op}

\* history: the step calls generate_response; the remote client returns
\* within the step
Invoked ==
    /\ calls' = calls + 1
    /\ posts' = IF use_local THEN posts
                ELSE posts + generate_posts(FALSE, NoExchange)

\* history: the step resumes a call of generate_response at the end of its
\* HTTP exchange
Completed(outcome) ==
    /\ posts' = posts + generate_posts(use_local, outcome)
    /\ UNCHANGED calls

\* the workload admits one more request
Admits(W) ==
    /\ accepted < W.requests
    /\ use_local => BagCardinality(pending) < W.pending

\* start_interview without `chat_history[session_id] = []`
start_interview_before_no_transcript(sessions, history, request, uuid, now) ==
    LET session_id == new_session_id(request, uuid)
    IN  [sessions |-> Put(sessions, session_id,
                          session_data(session_id, request, now)),
         history |-> history,
         co |-> Coroutine("start", session_id, request.candidate_email,
                          welcome_prompt(request.candidate_name))]

\* start_interview, from the call to the await
start_interview_before(sessions, history, request, uuid, now) ==
    LET session_id == new_session_id(request, uuid)
    IN  [sessions |-> Put(sessions, session_id,
                          session_data(session_id, request, now)),
         history |-> Put(history, session_id, <<>>),
         co |-> Coroutine("start", session_id, request.candidate_email,
                          welcome_prompt(request.candidate_name))]

\* start_interview, from the await to the end
start_interview_after(co, result) ==
    IF result.raised
    THEN [code |-> 500, body |-> NoBody]
    ELSE [code |-> 200,
          body |-> start_response(co.session_id,
                                  [candidate_email |-> co.candidate_email],
                                  result.value)]

\* handle_chat_message with the user entry inserted at the head of the list
handle_chat_message_before_prepend(sessions, history, request, now) ==
    [history |-> [history EXCEPT ![request.session_id] =
                      <<user_entry(request.message, now)>> \o @],
     co |-> Coroutine("chat", request.session_id, "",
                      response_prompt(request.message))]

\* handle_chat_message without the append of the user entry
handle_chat_message_before_no_entry(sessions, history, request, now) ==
    [history |-> history,
     co |-> Coroutine("chat", request.session_id, "",
                      response_prompt(request.message))]

\* handle_chat_message, from the session check to the await
handle_chat_message_before(sessions, history, request, now) ==
    [history |-> [history EXCEPT ![request.session_id] =
                      Append(@, user_entry(request.message, now))],
     co |-> Coroutine("chat", request.session_id, "",
                      response_prompt(request.message))]

\* handle_chat_message with the counter read before the await and written
\* back, plus one, after it: the turn whose reply is the k-th of the
\* transcript writes the counter as it stood when its user entry was appended
handle_chat_message_after_stale(sessions, history, co, result, now) ==
    IF result.raised
    THEN [sessions |-> sessions, history |-> history,
          code |-> chat_except([type |-> result.exc,
                                status_code |-> 0]).status_code,
          body |-> NoBody]
    ELSE LET messages == history[co.session_id]
             users == {i \in 1..Len(messages) : messages[i].role = "user"}
             k == Len(messages) - Cardinality(users) + 1
             own == CHOOSE i \in users :
                        Cardinality({j \in users : j <= i}) = k
             read == own - k
             history1 == [history EXCEPT ![co.session_id] =
                              Append(@, assistant_entry(result.value, now))]
             sessions1 == [sessions EXCEPT
                               ![co.session_id].current_question = read + 1]
         IN  [sessions |-> sessions1, history |-> history1, code |-> 200,
              body |-> chat_response(co.session_id, sessions1[co.session_id],
                                     result.value)]

\* handle_chat_message, from the await to the end
handle_chat_message_after(sessions, history, co, result, now) ==
    IF result.raised
    THEN [sessions |-> sessions, history |-> history,
          code |-> chat_except([type |-> result.exc,
                                status_code |-> 0]).status_code,
          body |-> NoBody]
    ELSE LET history1 == [history EXCEPT ![co.session_id] =
                              Append(@, assistant_entry(result.value, now))]
             sessions1 == [sessions EXCEPT ![co.session_id] =
                               advance_question(@)]
         IN  [sessions |-> sessions1, history |-> history1, code |-> 200,
              body |-> chat_response(co.session_id, sessions1[co.session_id],
                                     result.value)]

\* generate_report with the prompt built before the counter is looked up
generate_report_before_unread(sessions, history, session_id) ==
    LET session == sessions[session_id]
    IN  [co |-> Coroutine("report", session_id, "",
                          report_prompt(session.candidate_email, 0))]

\* generate_report, from the session check to the await
generate_report_before(sessions, history, session_id) ==
    LET session == sessions[session_id]
    IN  [co |-> Coroutine("report", session_id, "",
                          report_prompt(session.candidate_email,
                                        session.current_question))]

\* generate_report, from the await to the end
generate_report_after(sessions, co, result, now) ==
    IF result.raised
    THEN [sessions |-> sessions, code |-> 500, body |-> NoBody]
    ELSE LET sessions1 == [sessions EXCEPT ![co.session_id] =
                               mark_completed(@, now)]
         IN  [sessions |-> sessions1, code |-> 200,
              body |-> report_response(co.session_id, sessions1[co.session_id],
                                       result.value, now)]

\* history: the session ids start has handed out, with one more
Returned(code, session_id) ==
    IF code = 200 THEN start_returned (+) SetToBag({session_id})
    ELSE start_returned

\* history: the chat turns answered 200 on a session
Turns(session_id) ==
    IF session_id \in DOMAIN chat_returned THEN chat_returned[session_id]
    ELSE 0

Answered(code, session_id) ==
    IF code = 200 THEN Put(chat_returned, session_id, Turns(session_id) + 1)
    ELSE chat_returned

\* history: the reports answered 200 on a session
Reports(session_id) ==
    IF session_id \in DOMAIN report_returned THEN report_returned[session_id]
    ELSE 0

Reported(code, session_id) ==
    IF code = 200 THEN Put(report_returned, session_id, Reports(session_id) + 1)
    ELSE report_returned

\* POST /start up to the await; the whole handler when use_local is off
start_interview(W) ==
    \E request \in [candidate_email : W.emails, candidate_name : W.names] :
    \E now \in clock..W.time, uuid \in uuid4(W) :
        LET b == start_interview_before(active_sessions, chat_history,
                                        request, uuid, now)
            a == start_interview_after(
                     b.co, generate_response(FALSE, b.co.prompt, NoExchange))
        IN  /\ Admits(W)
            /\ accepted' = accepted + 1
            /\ active_sessions' = b.sessions
            /\ chat_history' = b.history
            /\ clock' = now
            /\ IF use_local
               THEN /\ Suspend(b.co)
                    /\ last' = Event("start", "await", b.co.session_id, 0,
                                     NoBody, NoExchange)
                    /\ UNCHANGED start_returned
               ELSE /\ last' = Ended("start", b.co.session_id, a, NoExchange)
                    /\ start_returned' = Returned(a.code, b.co.session_id)
                    /\ UNCHANGED pending
            /\ Invoked
            /\ UNCHANGED <<use_local, report_returned, chat_returned>>

\* POST /start from the resumption on
start_interview_resume(W) ==
    \E co \in Suspended("start"), outcome \in W.outcomes :
        LET a == start_interview_after(
                     co, generate_response(use_local, co.prompt, outcome))
        IN  /\ Resume(co)
            /\ last' = Ended("start", co.session_id, a, outcome)
            /\ start_returned' = Returned(a.code, co.session_id)
            /\ Completed(outcome)
            /\ UNCHANGED <<use_local, report_returned,
                   active_sessions, chat_history, clock,
                           chat_returned, accepted>>

\* POST /chat/message up to the await; the whole handler when use_local is off
handle_chat_message(W, request) ==
    IF request.session_id \notin DOMAIN active_sessions
    THEN /\ last' = Event("chat", "raise", request.session_id,
                          chat_except(SessionNotFound).status_code,
                          NoBody, NoExchange)
         /\ UNCHANGED <<use_local, calls, posts, report_returned,
                   active_sessions, chat_history, pending,
                        clock, chat_returned, accepted, start_returned>>
    ELSE \E now \in clock..W.time :
         LET b == handle_chat_message_before(active_sessions, chat_history,
                                             request, now)
             a == handle_chat_message_after(
                      active_sessions, b.history, b.co,
                      generate_response(FALSE, b.co.prompt, NoExchange), now)
         IN  /\ Admits(W)
             /\ accepted' = accepted + 1
             /\ clock' = now
             /\ IF use_local
                THEN /\ Suspend(b.co)
                     /\ chat_history' = b.history
                     /\ last' = Event("chat", "await", request.session_id, 0,
                                      NoBody, NoExchange)
                     /\ UNCHANGED <<active_sessions, chat_returned>>
                ELSE /\ active_sessions' = a.sessions
                     /\ chat_history' = a.history
                     /\ last' = Ended("chat", request.session_id, a, NoExchange)
                     /\ chat_returned' = Answered(a.code, request.session_id)
                     /\ UNCHANGED pending
             /\ Invoked
             /\ UNCHANGED <<use_local, report_returned,
                   start_returned>>

\* POST /chat/message from the resumption on
handle_chat_message_resume(W) ==
    \E co \in Suspended("chat"), outcome \in W.outcomes :
    \E now \in clock..W.time :
        LET a == handle_chat_message_after(
                     active_sessions, chat_history, co,
                     generate_response(use_local, co.prompt, outcome), now)
        IN  /\ Resume(co)
            /\ clock' = now
            /\ active_sessions' = a.sessions
            /\ chat_history' = a.history
            /\ last' = Ended("chat", co.session_id, a, outcome)
            /\ chat_returned' = Answered(a.code, co.session_id)
            /\ Completed(outcome)
            /\ UNCHANGED <<use_local, report_returned,
                   accepted, start_returned>>

\* get_interview_status reading the transcript with setdefault, ahead of the
\* session check
get_interview_status_setdefault(session_id) ==
    LET messages == IF session_id \in DOMAIN chat_history
                    THEN chat_history[session_id] ELSE <<>>
    IN  /\ chat_history' = Put(chat_history, session_id, messages)
        /\ IF session_id \notin DOMAIN active_sessions
           THEN last' = Event("status", "raise", session_id,
                              SessionNotFound.status_code, NoBody, NoExchange)
           ELSE last' = Event("status", "return", session_id, 200,
                              status_response(session_id,
                                              active_sessions[session_id],
                                              messages),
                              NoExchange)
        /\ UNCHANGED <<use_local, calls, posts, active_sessions, pending, clock,
                       chat_returned, accepted, start_returned,
                       report_returned>>

\* GET /status/{session_id}
get_interview_status(session_id) ==
    /\ IF session_id \notin DOMAIN active_sessions
       THEN last' = Event("status", "raise", session_id,
                          SessionNotFound.status_code, NoBody, NoExchange)
       ELSE LET session == active_sessions[session_id]
                messages == IF session_id \in DOMAIN chat_history
                            THEN chat_history[session_id] ELSE <<>>
            IN  last' = Event("status", "return", session_id, 200,
                              status_response(session_id, session, messages),
                              NoExchange)
    /\ UNCHANGED <<use_local, calls, posts, report_returned,
                   active_sessions, chat_history, pending, clock,
                   chat_returned, accepted, start_returned>>

\* GET /report/{session_id} up to the await; the whole handler when use_local
\* is off
generate_report(W, session_id) ==
    IF session_id \notin DOMAIN active_sessions
    THEN /\ last' = Event("report", "raise", session_id,
                          SessionNotFound.status_code, NoBody, NoExchange)
         /\ UNCHANGED <<use_local, calls, posts, active_sessions, chat_history, pending,
                        clock, chat_returned, accepted, start_returned,
                        report_returned>>
    ELSE \E now \in clock..W.time :
         LET b == generate_report_before(active_sessions, chat_history,
                                         session_id)
             a == generate_report_after(
                      active_sessions, b.co,
                      generate_response(FALSE, b.co.prompt, NoExchange), now)
         IN  /\ Admits(W)
             /\ accepted' = accepted + 1
             /\ IF use_local
                THEN /\ Suspend(b.co)
                     /\ last' = Event("report", "await", session_id, 0,
                                      NoBody, NoExchange)
                     /\ UNCHANGED <<active_sessions, clock, report_returned>>
                ELSE /\ active_sessions' = a.sessions
                     /\ clock' = now
                     /\ last' = Ended("report", session_id, a, NoExchange)
                     /\ report_returned' = Reported(a.code, session_id)
                     /\ UNCHANGED pending
             /\ Invoked
             /\ UNCHANGED <<use_local, chat_history, chat_returned,
                            start_returned>>

\* GET /report/{session_id} from the resumption on
generate_report_resume(W) ==
    \E co \in Suspended("report"), outcome \in W.outcomes :
    \E now \in clock..W.time :
        LET a == generate_report_after(
                     active_sessions, co,
                     generate_response(use_local, co.prompt, outcome), now)
        IN  /\ Resume(co)
            /\ clock' = now
            /\ active_sessions' = a.sessions
            /\ last' = Ended("report", co.session_id, a, outcome)
            /\ report_returned' = Reported(a.code, co.session_id)
            /\ Completed(outcome)
            /\ UNCHANGED <<use_local, chat_history, chat_returned,
                           accepted, start_returned>>

\* a direct caller of generate_response resumes with the result
generate_response_resume ==
    \E co \in Suspended("generate") :
    \E outcome \in IF use_local THEN Outcomes ELSE {NoExchange} :
        LET result == generate_response(use_local, co.prompt, outcome)
        IN  /\ Resume(co)
            /\ last' = Event("generate",
                             IF result.raised THEN "raise" ELSE "return",
                             "", 0,
                             [prompt |-> co.prompt, text |-> result.value],
                             outcome)
            /\ Completed(outcome)
            /\ UNCHANGED <<use_local, report_returned,
                   active_sessions, chat_history, clock,
                           chat_returned, accepted, start_returned>>

----------------------------------------------------------------------------
(* Specifications *)

Init ==
    /\ use_local \in BOOLEAN
    /\ active_sessions = << >>
    /\ chat_history = << >>
    /\ pending = EmptyBag
    /\ clock = 0
    /\ last = Event("none", "none", "", 0, NoBody, NoExchange)
    /\ chat_returned = << >>
    /\ accepted = 0
    /\ start_returned = EmptyBag
    /\ report_returned = << >>
    /\ calls = 0
    /\ posts = 0

Step(W) ==
    \/ start_interview(W)
    \/ start_interview_resume(W)
    \/ \E session_id \in RequestIds, message \in W.messages :
           handle_chat_message(W, [session_id |-> session_id,
                                   message |-> message])
    \/ handle_chat_message_resume(W)
    \/ \E session_id \in RequestIds : get_interview_status(session_id)
    \/ \E session_id \in RequestIds : generate_report(W, session_id)
    \/ generate_report_resume(W)

\* Two sessions, overlapping requests, the clock at rest
Wide ==
    Workload(MaxSessions, MaxRequests, 0, {"a@b.com"}, {"Test Candidate"},
             {"I use VLOOKUP daily", "ok"},
             OutcomesOf({"ok", "timeout", "connect_error"}))

Next == Step(Wide)

Spec == Init /\ [][Next]_vars

\* One session taken past the five questions of the progress report
Deep ==
    Workload(1, DeepRequests, 0, {"a@b.com"}, {"Test Candidate"}, {"ok"},
             OutcomesOf({"ok", "connect_error"}))

NextDeep == Step(Deep)

SpecDeep == Init /\ [][NextDeep]_vars

\* One session with the clock ticking between the steps and every HTTP
\* exchange failing, in each of the three ways _call_ollama tells apart
Timed ==
    Workload(1, MaxRequests, MaxTime, {"a@b.com"}, {"Test Candidate"}, {"ok"},
             OutcomesOf({"http_error", "timeout", "connect_error"}))

NextClock == Step(Timed)

SpecClock == Init /\ [][NextClock]_vars

\* One session with every kind of user message and every HTTP exchange
\* ending in the keyword fallback
Talk ==
    Workload(1, TalkRequests, 0, {"a@b.com"}, {"Test Candidate"}, Messages,
             OutcomesOf({"connect_error", "http_error"}))

NextTalk == Step(Talk)

SpecTalk == Init /\ [][NextTalk]_vars

\* Overlapping requests on two sessions, with every HTTP exchange coming to
\* one of its ends and the event loop running every coroutine that can run
Live ==
    Workload(MaxSessions, LiveRequests, 0, {"a@b.com"}, {"Test Candidate"},
             {"ok"},
             OutcomesOf({"ok", "http_error", "timeout", "connect_error"}))

NextLive == Step(Live)

\* httpx ends every exchange, by its timeout at the latest, and asyncio runs
\* a coroutine whose await has completed
FairLive ==
    /\ WF_vars(start_interview_resume(Live))
    /\ WF_vars(handle_chat_message_resume(Live))
    /\ WF_vars(generate_report_resume(Live))

SpecLive == Init /\ [][NextLive]_vars /\ FairLive

\* The LLM client alone: one call of generate_response per behaviour, on any
\* prompt
InitGenerate ==
    /\ use_local \in BOOLEAN
    /\ active_sessions = << >>
    /\ chat_history = << >>
    /\ \E prompt \in Prompts :
           pending = SetToBag({Coroutine("generate", "", "", prompt)})
    /\ clock = 0
    /\ last = Event("none", "none", "", 0, NoBody, NoExchange)
    /\ chat_returned = << >>
    /\ accepted = 0
    /\ start_returned = EmptyBag
    /\ report_returned = << >>
    /\ calls = 1
    /\ posts = 0

NextGenerate == generate_response_resume

SpecGenerate == InitGenerate /\ [][NextGenerate]_vars

----------------------------------------------------------------------------
(* Properties *)

StatusReturned == last.op = "status" /\ last.phase = "return"
ChatReturned == last.op = "chat" /\ last.phase = "return"

\* the chat coroutines suspended on a session, counted with multiplicity
ChatsInFlight(session_id) ==
    BagCardinality([co \in {c \in Suspended("chat") :
                               c.session_id = session_id} |->
                        CopiesIn(co, pending)])

CountRole(messages, role) ==
    Cardinality({i \in 1..Len(messages) : messages[i].role = role})

\* C1: whenever status answers for a session on which exactly N chat turns
\* have returned successfully, whatever else is in flight, it reports
\* current_question = N and completion_percentage = min(100, N * 100 / 5).
C1_StatusReportsReturnedTurns ==
    StatusReturned =>
        LET N == Turns(last.session_id)
        IN  /\ last.body.progress.current_question = N
            /\ last.body.progress.completion_percentage
                   = (IF N * 100 >= 500 THEN 100 ELSE (N * 100) \div 5)

\* C1 witness: status answers past the fifth question, with the percentage
\* capped, on a session whose first two chat turns overlapped
C1_Witness ==
    /\ StatusReturned
    /\ Turns(last.session_id) > 5
    /\ last.body.progress.current_question > 5
    /\ last.body.progress.completion_percentage = 100
    /\ chat_history[last.session_id][2].role = "user"

\* C2: the question_number a chat turn returns is the number of chat turns
\* that have completed on the session, this one included: the k-th to
\* complete returns k.
C2_ChatReturnsItsRank ==
    ChatReturned => last.body.question_number = Turns(last.session_id)

\* C2 witness: the second of two overlapping chat turns (both user entries
\* were appended before either reply) returns question_number 2
C2_Witness ==
    /\ ChatReturned
    /\ last.body.question_number = 2
    /\ Len(chat_history[last.session_id]) = 4
    /\ chat_history[last.session_id][2].role = "user"

\* C3: a status, report or chat_turn request whose session id is not in the
\* store ends in 404, never in 500, changes no session, transcript or
\* counter and suspends at no LLM call.
C3_UnknownSessionIsNotFound ==
    [][(/\ last'.op \in {"status", "report", "chat"}
        /\ last'.session_id \notin DOMAIN active_sessions)
       => /\ last'.phase = "raise"
          /\ last'.code = 404
          /\ UNCHANGED <<active_sessions, chat_history, pending,
                         chat_returned, report_returned>>]_vars

\* C3 witness: a chat_turn on an unknown id was answered 404 while the store
\* held a session and a coroutine was suspended
C3_Witness ==
    /\ last.op = "chat"
    /\ last.code = 404
    /\ last.session_id \notin DOMAIN active_sessions
    /\ DOMAIN active_sessions # {}
    /\ pending # EmptyBag

FailureKinds == {"timeout", "connect_error", "http_error"}

\* C4 as stated: generate never raises, and after a timeout, a connection
\* failure or a non-success status it returns the keyword fallback for the
\* prompt.
C4_FallbackOnEveryFailure ==
    last.op = "generate" =>
        /\ last.phase = "return"
        /\ last.llm.kind \in FailureKinds
               => last.body.text = _fallback_response(last.body.prompt)

\* C4 amended: generate never raises; after a connection failure or a
\* non-success status it returns the keyword fallback for the prompt, and
\* after a timeout it returns the fixed timeout text whatever the prompt.
C4_FallbackOrTimeoutText ==
    last.op = "generate" =>
        /\ last.phase = "return"
        /\ last.llm.kind \in {"connect_error", "http_error"}
               => last.body.text = _fallback_response(last.body.prompt)
        /\ last.llm.kind = "timeout" => last.body.text = TimeoutText

\* C4 witness: a call on a prompt with a keyword timed out and returned the
\* timeout text
C4_Witness ==
    /\ last.op = "generate"
    /\ last.llm.kind = "timeout"
    /\ last.body.prompt = "vlookup in a pivot table"
    /\ last.body.text = TimeoutText

\* C5: a chat turn whose LLM call found the backend unreachable still
\* returns 200 with a non-empty reply, its user entry already in the
\* transcript, appends the assistant entry holding that reply and increments
\* the question counter by one.
C5_ChatSurvivesUnreachableBackend ==
    [][(last'.op = "chat" /\ last'.llm.kind = "connect_error")
       => LET sid == last'.session_id
          IN  /\ last'.phase = "return"
              /\ last'.code = 200
              /\ last'.body.response # ""
              /\ CountRole(chat_history[sid], "user")
                     > CountRole(chat_history[sid], "assistant")
              /\ chat_history'[sid]
                     = Append(chat_history[sid],
                              [role |-> "assistant",
                               message |-> last'.body.response,
                               timestamp |-> clock'])
              /\ active_sessions'[sid].current_question
                     = active_sessions[sid].current_question + 1]_vars

\* C5 witness: a chat turn returned after a connection failure
C5_Witness ==
    /\ ChatReturned
    /\ last.llm.kind = "connect_error"
    /\ last.body.response = PivotTableQuestion
    /\ active_sessions[last.session_id].current_question > 0

ReportReturned == last.op = "report" /\ last.phase = "return"

\* C6: the first report on a session finds it active without a completion
\* timestamp and leaves it completed with one; every report that returns
\* leaves its session completed and answers status "completed"; no step turns
\* a completed session active again.
C6_ReportCompletesAndStaysCompleted ==
    [][\A sid \in DOMAIN active_sessions :
          /\ active_sessions[sid].status = "completed"
                 => active_sessions'[sid].status = "completed"
          /\ (last'.op = "report" /\ last'.phase = "return"
              /\ last'.session_id = sid)
                 => /\ Reports(sid) = 0
                        => /\ active_sessions[sid].status = "active"
                           /\ active_sessions[sid].completed_at = <<>>
                    /\ active_sessions'[sid].status = "completed"
                    /\ active_sessions'[sid].completed_at = <<clock'>>
                    /\ last'.body.status = "completed"]_vars

\* C6 witness: a second report returned on a session, after the clock moved
C6_Witness ==
    /\ ReportReturned
    /\ Reports(last.session_id) = 2
    /\ active_sessions[last.session_id].status = "completed"
    /\ active_sessions[last.session_id].completed_at = <<1>>
    /\ active_sessions[last.session_id].started_at = 0

NoChatStarted(session_id) ==
    Turns(session_id) = 0 /\ ChatsInFlight(session_id) = 0

StartInFlight(session_id) ==
    \E co \in Suspended("start") : co.session_id = session_id

\* C7 as stated: status on a session on which no chat turn has been started
\* reports status active, current_question 0, completion_percentage 0 and
\* message_count 0.
C7_FreshSessionIsActiveAtZero ==
    (StatusReturned /\ NoChatStarted(last.session_id)) =>
        /\ last.body.status = "active"
        /\ last.body.progress.current_question = 0
        /\ last.body.progress.completion_percentage = 0
        /\ last.body.message_count = 0

\* C7 amended: status on a session on which no chat turn has been started
\* reports current_question 0, completion_percentage 0 and message_count 0,
\* and status active until a report on the session has returned, completed
\* from then on.
C7_FreshSessionIsAtZero ==
    (StatusReturned /\ NoChatStarted(last.session_id)) =>
        /\ last.body.status
               = (IF Reports(last.session_id) = 0 THEN "active"
                  ELSE "completed")
        /\ last.body.progress.current_question = 0
        /\ last.body.progress.completion_percentage = 0
        /\ last.body.message_count = 0

\* C7 witness: status answered for a session whose start is still suspended
\* at the welcome call
C7_Witness ==
    /\ StatusReturned
    /\ NoChatStarted(last.session_id)
    /\ StartInFlight(last.session_id)
    /\ last.body.status = "active"
    /\ last.body.message_count = 0

\* C8: a start stores exactly one new session with an empty transcript and
\* leaves every session and transcript already in the store as it was; the
\* session id a start returns is the one it stored and was returned by no
\* earlier start.
C8_StartAddsOneFreshSession ==
    [][/\ (last'.op = "start" /\ (last'.phase = "await" \/ ~use_local))
           => /\ Cardinality(DOMAIN active_sessions')
                     = Cardinality(DOMAIN active_sessions) + 1
              /\ DOMAIN chat_history' = DOMAIN active_sessions'
              /\ last'.session_id \notin DOMAIN active_sessions
              /\ chat_history'[last'.session_id] = <<>>
              /\ \A sid \in DOMAIN active_sessions :
                     /\ active_sessions'[sid] = active_sessions[sid]
                     /\ chat_history'[sid] = chat_history[sid]
       /\ (last'.op = "start" /\ last'.phase = "return")
           => /\ last'.body.session_id = last'.session_id
              /\ last'.body.session_id \in DOMAIN active_sessions'
              /\ ~BagIn(last'.body.session_id, start_returned)]_vars

\* C8 witness: a start returned its id while an overlapping start, whose
\* session is in the store too, is still suspended
C8_Witness ==
    /\ last.op = "start"
    /\ last.phase = "return"
    /\ \E co \in Suspended("start") : co.session_id # last.body.session_id
    /\ Cardinality(DOMAIN active_sessions) = 2

\* a keyword occurs in the prompt, letter case ignored
HasWord(prompt, word) ==
    \E i \in 1..(Len(prompt) - Len(word) + 1) :
        \A j \in 1..Len(word) :
            LowerChar(SubSeq(prompt, i + j - 1, i + j - 1)) = SubSeq(word, j, j)

FallbackKinds == {"connect_error", "http_error", "other_error", "ok_bad_body"}

\* C9: the fallback text is the welcome text if the prompt has "welcome" or
\* "greet" in any letter case, else the pivot-table question if it has
\* "vlookup", else the commission question if it has "pivot", else the
\* data-validation question: a function of the prompt alone.
C9_FallbackLadder ==
    (last.op = "generate" /\ last.llm.kind \in FallbackKinds) =>
        LET p == last.body.prompt
        IN  last.body.text =
                (IF HasWord(p, "welcome") \/ HasWord(p, "greet")
                 THEN WelcomeText
                 ELSE IF HasWord(p, "vlookup") THEN PivotTableQuestion
                 ELSE IF HasWord(p, "pivot") THEN CommissionQuestion
                 ELSE DataValidationQuestion)

\* C9 witness: a prompt with both "vlookup" and "pivot" got the pivot-table
\* question
C9_Witness ==
    /\ last.op = "generate"
    /\ last.llm.kind = "http_error"
    /\ last.body.prompt = "PIVOT then VLOOKUP"
    /\ last.body.text = PivotTableQuestion

\* C10: a status call, on a known or an unknown session id, changes no
\* session, no transcript and not the clock, and suspends at no LLM call.
C10_StatusIsPureRead ==
    [][last'.op = "status"
       => UNCHANGED <<active_sessions, chat_history, pending, clock,
                      use_local>>]_vars

\* C10 witness: status answered for a session with a transcript while a
\* coroutine was suspended
C10_Witness ==
    /\ StatusReturned
    /\ chat_history[last.session_id] # <<>>
    /\ pending # EmptyBag

\* C11: in every reachable state, also while requests are suspended at
\* their LLM call, the session ids that have a transcript list are exactly
\* the session ids that have a session record.
C11_TranscriptIffSession ==
    DOMAIN chat_history = DOMAIN active_sessions

\* C11 witness: two sessions are in the store, each with its transcript
\* list, while a start and a chat turn are suspended
C11_Witness ==
    /\ Cardinality(DOMAIN active_sessions) = 2
    /\ DOMAIN chat_history = DOMAIN active_sessions
    /\ Suspended("start") # {}
    /\ Suspended("chat") # {}

\* C12: across every step of every request, a session's question counter
\* starts at 0 when the session is stored and is afterwards either left as
\* it was or, by a chat turn on that session only, raised by exactly 1.
C12_CounterOnlyAdvancesByChat ==
    [][\A sid \in DOMAIN active_sessions' :
           IF sid \notin DOMAIN active_sessions
           THEN active_sessions'[sid].current_question = 0
           ELSE LET q == active_sessions[sid].current_question
                    q1 == active_sessions'[sid].current_question
                IN  \/ q1 = q
                    \/ /\ q1 = q + 1
                       /\ last'.op = "chat"
                       /\ last'.phase = "return"
                       /\ last'.session_id = sid]_vars

\* C12 witness: a chat turn raised the counter of a session from 1 to 2
\* after a report had completed that session
C12_Witness ==
    /\ ChatReturned
    /\ active_sessions[last.session_id].current_question = 2
    /\ active_sessions[last.session_id].status = "completed"

\* C13: a session's status is always active or completed, and across every
\* step it is either left as it was or changed from active to completed:
\* no start, chat turn, status or report makes a completed session active.
C13_StatusOnlyActiveToCompleted ==
    [][\A sid \in DOMAIN active_sessions' :
           LET status1 == active_sessions'[sid].status
           IN  /\ status1 \in {"active", "completed"}
               /\ sid \in DOMAIN active_sessions
                      => \/ status1 = active_sessions[sid].status
                         \/ /\ active_sessions[sid].status = "active"
                            /\ status1 = "completed"]_vars

\* C13 witness: a session was completed by a report after a chat turn, and
\* a start of another session then returned
C13_Witness ==
    /\ last.op = "start"
    /\ last.phase = "return"
    /\ \E sid \in DOMAIN active_sessions :
           /\ sid # last.session_id
           /\ active_sessions[sid].status = "completed"
           /\ Reports(sid) = 1
           /\ Turns(sid) = 1

\* C14: a session's completion timestamp is absent until the first report
\* on the session completes and, once set, is changed by no later step, a
\* second report on the same session included.
C14_CompletionTimestampSetOnce ==
    [][\A sid \in DOMAIN active_sessions :
           /\ Reports(sid) = 0 => active_sessions[sid].completed_at = <<>>
           /\ active_sessions[sid].completed_at # <<>>
                  => active_sessions'[sid].completed_at
                         = active_sessions[sid].completed_at]_vars

\* two chat turns on the session overlapped (both user entries were
\* appended before either reply) and both have returned
TwoOverlappedTurnsReturned(session_id) ==
    /\ Len(chat_history[session_id]) = 4
    /\ chat_history[session_id][2].role = "user"
    /\ Turns(session_id) = 2

\* C15 as stated: two concurrent chat turns on one session both read the
\* question counter before either increments it, so that after both have
\* completed the counter has grown by only 1.
C15_OverlappedTurnsLoseAnUpdate ==
    \A sid \in DOMAIN active_sessions :
        TwoOverlappedTurnsReturned(sid)
            => active_sessions[sid].current_question = 1

\* C15 amended: no update of the question counter is lost: in every state
\* the counter of a session is the number of chat turns that have completed
\* on it, however those turns overlapped.
C15_NoLostUpdate ==
    \A sid \in DOMAIN active_sessions :
        active_sessions[sid].current_question = Turns(sid)

\* C15 witness: two chat turns on one session overlapped, both have
\* returned and the counter stands at 2
C15_Witness ==
    \E sid \in DOMAIN active_sessions :
        /\ TwoOverlappedTurnsReturned(sid)
        /\ active_sessions[sid].current_question = 2

\* a step in which start, chat_turn or report returned to its client
OrchestratorReturns ==
    /\ last'.op \in {"start", "chat", "report"}
    /\ last'.phase = "return"

\* the text generate_response handed to the handler that returns in this
\* step: computed from the prompt of the coroutine the step resumed and the
\* outcome of its HTTP exchange, or by the remote client when none was
\* suspended
ReturnedByClient ==
    IF pending' = pending
    THEN generate_response(FALSE, "", NoExchange).value
    ELSE LET co == CHOOSE c \in BagToSet(pending) :
                       CopiesIn(c, pending') < CopiesIn(c, pending)
         IN  generate_response(use_local, co.prompt, last'.llm).value

\* the text in the response body of the handler that returns in this step
ReturnedToCaller ==
    CASE last'.op = "start" -> last'.body.welcome_message
      [] last'.op = "chat" -> last'.body.response
      [] last'.op = "report" -> last'.body.report

\* the step appended an assistant entry with the text to the transcript of
\* the session of the request
AppendsAsAssistant(text) ==
    LET sid == last'.session_id
        before == IF sid \in DOMAIN chat_history
                  THEN Len(chat_history[sid]) ELSE 0
        messages == chat_history'[sid]
    IN  /\ Len(messages) > before
        /\ messages[Len(messages)].role = "assistant"
        /\ messages[Len(messages)].message = text

\* the step left every transcript as it was (empty if it is new)
AppendsNothing ==
    \A sid \in DOMAIN chat_history' :
        chat_history'[sid] = (IF sid \in DOMAIN chat_history
                              THEN chat_history[sid] ELSE <<>>)

\* C16 as stated: whenever start, chat_turn or report returns, the text the
\* LLM client returned is the text in the response, unchanged, and has been
\* appended to the session's transcript as an assistant entry.
C16_TextReturnedAndAppended ==
    [][OrchestratorReturns
           => /\ ReturnedToCaller = ReturnedByClient
              /\ AppendsAsAssistant(ReturnedByClient)]_vars

\* C16 amended: whenever start, chat_turn or report returns, the text the
\* LLM client returned is the text in the response, unchanged; chat_turn
\* appends it to the session's transcript as an assistant entry, while start
\* and report append nothing to any transcript.
C16_TextReturnedAndAppendedByChat ==
    [][OrchestratorReturns
           => /\ ReturnedToCaller = ReturnedByClient
              /\ IF last'.op = "chat"
                 THEN AppendsAsAssistant(ReturnedByClient)
                 ELSE AppendsNothing]_vars

\* C16 witness: a report returned the content of its HTTP exchange on a
\* session whose transcript ends with the timeout text of a chat turn
C16_Witness ==
    /\ last.op = "report"
    /\ last.phase = "return"
    /\ last.llm.kind = "ok"
    /\ last.body.report = last.llm.content
    /\ Len(chat_history[last.session_id]) = 2
    /\ chat_history[last.session_id][2].message = TimeoutText

\* C17: whenever no chat turn is in flight on a session, its transcript is
\* a sequence of user/assistant pairs: the entries at odd positions have role
\* user and the entries at even positions role assistant, also after chat
\* turns on the session overlapped.
C17_TranscriptIsPairs ==
    \A sid \in DOMAIN chat_history :
        ChatsInFlight(sid) = 0
            => /\ Len(chat_history[sid]) % 2 = 0
               /\ \A i \in 1..Len(chat_history[sid]) :
                      chat_history[sid][i].role
                          = (IF i % 2 = 1 THEN "user" ELSE "assistant")

\* the roles of the entries the step appended to the transcript of a session
AppendedRoles(session_id) ==
    LET before == chat_history[session_id]
        after == chat_history'[session_id]
    IN  [i \in 1..(Len(after) - Len(before)) |-> after[Len(before) + i].role]

\* C18: across every step of every request no session and no transcript
\* leaves the store and the earlier transcript of each session is a prefix
\* of the later one; a chat turn appends its user entry before its assistant
\* entry: the user entry up to its await and the assistant entry after it.
C18_TranscriptIsAppendOnly ==
    [][/\ DOMAIN active_sessions \subseteq DOMAIN active_sessions'
       /\ DOMAIN chat_history \subseteq DOMAIN chat_history'
       /\ \A sid \in DOMAIN chat_history :
              /\ Len(chat_history'[sid]) >= Len(chat_history[sid])
              /\ SubSeq(chat_history'[sid], 1, Len(chat_history[sid]))
                     = chat_history[sid]
       /\ (last'.op = "chat" /\ last'.session_id \in DOMAIN chat_history)
              => AppendedRoles(last'.session_id)
                     = (CASE last'.phase = "await" -> <<"user">>
                          [] last'.phase = "return" /\ use_local
                                -> <<"assistant">>
                          [] last'.phase = "return" /\ ~use_local
                                -> <<"user", "assistant">>
                          [] OTHER -> <<>>)]_vars

\* C18 witness: the second of two chat turns that did not overlap appended
\* its reply behind the first pair and its own user entry
C18_Witness ==
    /\ ChatReturned
    /\ use_local
    /\ Len(chat_history[last.session_id]) = 4
    /\ chat_history[last.session_id][2].role = "assistant"
    /\ chat_history[last.session_id][3].role = "user"

\* the coroutine a step suspended
NewlySuspended ==
    CHOOSE c \in BagToSet(pending') : CopiesIn(c, pending') > CopiesIn(c, pending)

\* the prompt a handler builds from the store as it is before the step
PromptFromStore(op, session_id) ==
    CASE op = "start"
           -> welcome_prompt(active_sessions'[session_id].candidate_name)
      [] op = "chat"
           -> LET messages == chat_history'[session_id]
              IN  response_prompt(messages[Len(messages)].message)
      [] op = "report"
           -> report_prompt(active_sessions[session_id].candidate_email,
                            active_sessions[session_id].current_question)

\* C19: start, chat_turn and report suspend at most once, at the LLM call:
\* a step suspends at most one coroutine, only as the first step of a
\* request, with the prompt already built from the store, and before any
\* mutation that records the reply; the step that resumes a coroutine ends
\* its request, suspends nothing again and makes the mutations that record
\* the reply (chat_turn: assistant entry and counter, report: status and
\* completion timestamp) all within that one step.
C19_OneSuspensionBeforeTheReplyIsRecorded ==
    [][/\ last'.phase = "await"
           => /\ use_local
              /\ accepted' = accepted + 1
              /\ pending' = pending (+) SetToBag({NewlySuspended})
              /\ NewlySuspended.op = last'.op
              /\ NewlySuspended.session_id = last'.session_id
              /\ NewlySuspended.prompt
                     = PromptFromStore(last'.op, last'.session_id)
              /\ \A sid \in DOMAIN active_sessions :
                     active_sessions'[sid] = active_sessions[sid]
              /\ \A sid \in DOMAIN chat_history :
                     \A i \in 1..Len(AppendedRoles(sid)) :
                         AppendedRoles(sid)[i] # "assistant"
       /\ last'.phase # "await"
           => /\ pending' \sqsubseteq pending
              /\ BagCardinality(pending')
                     = BagCardinality(pending)
                           - (IF use_local /\ accepted' = accepted
                                 /\ last'.op # "status"
                                 /\ last'.code # 404
                              THEN 1 ELSE 0)
       /\ (last'.op = "chat" /\ last'.phase = "return")
           => LET sid == last'.session_id
              IN  /\ active_sessions'[sid].current_question
                         = active_sessions[sid].current_question + 1
                  /\ Len(AppendedRoles(sid)) >= 1
                  /\ AppendedRoles(sid)[Len(AppendedRoles(sid))]
                         = "assistant"
       /\ (last'.op = "report" /\ last'.phase = "return")
           => LET sid == last'.session_id
              IN  /\ active_sessions'[sid].status = "completed"
                  /\ active_sessions'[sid].completed_at = <<clock'>>]_vars

\* C19 witness: a report is suspended with a prompt built from counter 1
\* while a chat turn on the same session is suspended too
C19_Witness ==
    /\ last.op = "report"
    /\ last.phase = "await"
    /\ active_sessions[last.session_id].current_question = 1
    /\ \E co \in Suspended("report") :
           /\ co.session_id = last.session_id
           /\ co.prompt = report_prompt("a@b.com", 1)
    /\ ChatsInFlight(last.session_id) = 1

\* C20: every start, chat_turn and report on an existing session calls
\* generate exactly once, and every call of generate posts at most one
\* request to the LLM endpoint: one when the local client is used, also
\* when the exchange ends in a timeout, a connection failure or a
\* non-success status, and none when the remote client is.
C20_OneAttemptPerCall ==
    /\ calls = accepted
    /\ posts = (IF use_local THEN calls - BagCardinality(pending) ELSE 0)

\* C20 witness: three calls have returned, the last after a non-success
\* status, with three requests posted in all, while a fourth call is
\* suspended
C20_Witness ==
    /\ use_local
    /\ last.phase = "return"
    /\ last.llm.kind = "http_error"
    /\ calls = 4
    /\ posts = 3
    /\ BagCardinality(pending) = 1

\* C21: in every reachable state the transcript of every session holds
\* twice as many entries as its question counter says, plus one for each
\* chat turn on the session that is suspended at its LLM call; so the
\* message_count status reports is twice the current_question it reports
\* exactly when no chat turn is in flight on the session.
C21_TranscriptLengthFollowsCounter ==
    /\ \A sid \in DOMAIN active_sessions :
           Len(chat_history[sid])
               = 2 * active_sessions[sid].current_question + ChatsInFlight(sid)
    /\ StatusReturned
           => ((last.body.message_count
                    = 2 * last.body.progress.current_question)
               <=> ChatsInFlight(last.session_id) = 0)

\* C21 witness: status reported three messages at question 1, with a second
\* chat turn on the session suspended
C21_Witness ==
    /\ StatusReturned
    /\ last.body.message_count = 3
    /\ last.body.progress.current_question = 1
    /\ ChatsInFlight(last.session_id) = 1

\* C22: a chat turn on a stored session neither depends on nor changes the
\* session's status: whatever the status, also when a report completed the
\* session while the turn was suspended, the turn appends its user entry,
\* then returns 200, appends its assistant entry and raises the counter by
\* 1, and the status is after each of its steps what it was before.
C22_ChatIgnoresStatus ==
    [][(last'.op = "chat" /\ last'.session_id \in DOMAIN active_sessions)
           => LET sid == last'.session_id
              IN  /\ active_sessions'[sid].status = active_sessions[sid].status
                  /\ last'.phase \in {"await", "return"}
                  /\ last'.phase = "await"
                         => AppendedRoles(sid) = <<"user">>
                  /\ last'.phase = "return"
                         => /\ last'.code = 200
                            /\ active_sessions'[sid].current_question
                                   = active_sessions[sid].current_question + 1
                            /\ AppendedRoles(sid)
                                   = (IF use_local THEN <<"assistant">>
                                      ELSE <<"user", "assistant">>)]_vars

\* C22 witness: a chat turn returned on a completed session whose report
\* completed at time 1, after the turn had appended its user entry at time 0
C22_Witness ==
    /\ ChatReturned
    /\ active_sessions[last.session_id].status = "completed"
    /\ active_sessions[last.session_id].completed_at = <<1>>
    /\ active_sessions[last.session_id].current_question = 1
    /\ chat_history[last.session_id][1].timestamp = 0
    /\ chat_history[last.session_id][2].role = "assistant"

\* the fields of a session a report does not write
KeptByReport(session) ==
    [session EXCEPT !.status = "", !.completed_at = <<>>]

\* C23: no step of a report changes a transcript, a session other than its
\* own, or any field of its own session but status and completion
\* timestamp; the questions_answered it returns is the counter as it stands
\* when the response is built, after the LLM call.
C23_ReportWritesStatusAndTimestampOnly ==
    [][(last'.op = "report" /\ last'.session_id \in DOMAIN active_sessions)
           => LET sid == last'.session_id
              IN  /\ chat_history' = chat_history
                  /\ DOMAIN active_sessions' = DOMAIN active_sessions
                  /\ \A other \in DOMAIN active_sessions \ {sid} :
                         active_sessions'[other] = active_sessions[other]
                  /\ KeptByReport(active_sessions'[sid])
                         = KeptByReport(active_sessions[sid])
                  /\ last'.phase = "await"
                         => active_sessions'[sid] = active_sessions[sid]
                  /\ last'.phase = "return"
                         => last'.body.questions_answered
                                = active_sessions[sid].current_question]_vars

\* C23 witness: a report returned questions_answered 1 on a session with a
\* transcript of two entries, with another, active session in the store
C23_Witness ==
    /\ ReportReturned
    /\ last.body.questions_answered = 1
    /\ active_sessions[last.session_id].current_question = 1
    /\ Len(chat_history[last.session_id]) = 2
    /\ \E other \in DOMAIN active_sessions :
           /\ other # last.session_id
           /\ active_sessions[other].status = "active"

\* the coroutine a step resumed
JustResumed ==
    CHOOSE c \in BagToSet(pending) : CopiesIn(c, pending') < CopiesIn(c, pending)

\* the user message a chat prompt was built from
MessageOf(prompt) == CHOOSE m \in Messages : response_prompt(m) = prompt

\* C24: when the LLM call of a chat turn ends in a connection failure or a
\* non-success status, the reply is the welcome text if the user message
\* has "welcome" or "greet", else the pivot-table question if it has
\* "vlookup", else the commission question; it is the data-validation
\* question for no user message.
C24_ChatFallbackFollowsMessage ==
    [][(/\ last'.op = "chat"
        /\ last'.phase = "return"
        /\ last'.llm.kind \in {"connect_error", "http_error"})
           => LET m == MessageOf(JustResumed.prompt)
              IN  /\ \E i \in 1..Len(chat_history[last'.session_id]) :
                         /\ chat_history[last'.session_id][i].role = "user"
                         /\ chat_history[last'.session_id][i].message = m
                  /\ last'.body.response # DataValidationQuestion
                  /\ last'.body.response
                         = (IF HasWord(m, "welcome") \/ HasWord(m, "greet")
                            THEN WelcomeText
                            ELSE IF HasWord(m, "vlookup")
                                 THEN PivotTableQuestion
                                 ELSE CommissionQuestion)]_vars

\* C24 witness: the chat turn for the message "ok", which has none of the
\* keywords, was answered with the commission question after a connection
\* failure
C24_Witness ==
    /\ ChatReturned
    /\ last.llm.kind = "connect_error"
    /\ chat_history[last.session_id][1].message = "ok"
    /\ Len(chat_history[last.session_id]) = 2
    /\ last.body.response = CommissionQuestion

\* history: the start, chat_turn and report requests answered 200 so far
Responses ==
    LET Sum(counts) ==
            BagCardinality([sid \in DOMAIN counts |-> counts[sid]])
    IN  BagCardinality(start_returned) + Sum(chat_returned)
            + Sum(report_returned)

\* the session ids SpecLive hands out
LiveSessionIds == {"uuid-" \o ToString(i) : i \in 1..Live.sessions}

\* a request of this kind on this session is suspended at its LLM call
InFlight(op, session_id) ==
    \E co \in Suspended(op) : co.session_id = session_id

\* C25: with every LLM call coming to an end and a fair event loop, the
\* starts, chat turns and reports suspended at their LLM call on a session
\* are eventually all resumed, whatever else is in flight on that or another
\* session, and every accepted start, chat_turn and report is eventually
\* answered.
C25_EveryAcceptedRequestReturns ==
    /\ \A op \in {"start", "chat", "report"}, sid \in LiveSessionIds :
           InFlight(op, sid) ~> ~InFlight(op, sid)
    /\ \A n \in 1..Live.requests : (accepted >= n) ~> (Responses >= n)

\* C25 witness: every accepted request has been answered, the last after a
\* timeout, on two sessions, with nothing left suspended
C25_Witness ==
    /\ use_local
    /\ accepted = LiveRequests
    /\ Responses = LiveRequests
    /\ pending = EmptyBag
    /\ last.llm.kind = "timeout"
    /\ Cardinality(DOMAIN active_sessions) = 2

====
